---------------------------- MODULE Spec2Model ----------------------------
(***************************************************************************)
(* A model of bl-patcher (src/src/main.rs): the install-path resolver, the *)
(* SHA-1 classification of Borderlands2.exe against the VERSIONS registry, *)
(* the seek-and-overwrite patch engine and main's orchestration of them.   *)
(*                                                                         *)
(* Scale.  The executable is modelled as a short byte sequence and the     *)
(* registry's offsets and byte values are scaled down to fit it, keeping   *)
(* what the code depends on: three one-byte changes, listed in an order    *)
(* that is not ascending by offset (middle, highest, lowest), each with    *)
(* original /= patch, over pairwise distinct offsets.  SHA-1 is modelled   *)
(* as a collision-free, order- and length-sensitive streaming fold; the    *)
(* registry's two hex strings are the digests of the released image and of *)
(* that image with every change applied, which is what the registry entry  *)
(* of the source records for the real executable.                          *)
(***************************************************************************)
EXTENDS Integers, Sequences, FiniteSets, TLC

\* Longest executable the environment may hold when the program starts.
MaxLen == 5
\* Most entries of the "LibraryFolders" table of libraryfolders.vdf.
MaxRoots == 1
\* Most invocations of the program in one behaviour.
MaxRuns == 2

\* BufReader::with_capacity(0x10000, file)
BufCapacity == 65536

VARIABLES
    env,            \* the Steam installation: HOME, libraryfolders.vdf, manifests
    exe_exists,     \* whether Binaries/Win32/Borderlands2.exe exists
    file,           \* the bytes of the executable on disk
    pc,             \* main's position
    run,            \* which invocation of the program this is
    cursor,         \* the position of the open file handle
    install_path,   \* find_install_path's value
    state,          \* the ExeState main got from the first get_exe_state
    k,              \* modify_file: index of the next change
    result,         \* how main ended
    report,         \* what was written to stderr, in order
    opened,         \* history: the content when this run opened the file
    verified,       \* history: the ExeState of the post-patch get_exe_state
    iofail,         \* history: where an I/O operation failed in this run
    prev,           \* history: the previous run
    tampered        \* history: another process wrote the file during this run

vars == << env, exe_exists, file, pc, run, cursor, install_path, state, k,
           result, report, opened, verified, iofail, prev, tampered >>

----------------------------------------------------------------------------
(* Small helpers *)

Min(a, b) == IF a < b THEN a ELSE b
Max(a, b) == IF a > b THEN a ELSE b

RECURSIVE SeqsUpTo(_, _)
\* All sequences over S of length at most n.
SeqsUpTo(S, n) ==
    IF n = 0 THEN { << >> }
    ELSE LET shorter == SeqsUpTo(S, n - 1)
         IN  shorter \cup { Append(s, x) : s \in { t \in shorter : Len(t) = n - 1 }, x \in S }

----------------------------------------------------------------------------
(* The registry *)

\* static VERSIONS: one Version; offsets and bytes scaled (see the header).
\* The hashes are hex strings, here sequences of hex digits.
VERSIONS ==
    << [ unpatched_hash |-> << 6, 1, 9 >>,
         patched_hash   |-> << 6, 8, 5 >>,
         changes        |-> << [ offset |-> 2, original |-> << 1 >>, patch |-> << 0 >> ],
                               [ offset |-> 3, original |-> << 2 >>, patch |-> << 1 >> ],
                               [ offset |-> 1, original |-> << 0 >>, patch |-> << 2 >> ] >> ] >>

\* The byte values the registry mentions; the executable is made of these.
Bytes ==
    UNION { UNION { { c.original[i] : i \in DOMAIN c.original } \cup
                    { c.patch[i] : i \in DOMAIN c.patch } :
                    c \in { VERSIONS[v].changes[j] : j \in DOMAIN VERSIONS[v].changes } } :
            v \in DOMAIN VERSIONS }

----------------------------------------------------------------------------
(* The file handle *)

\* file.write_all(bytes) with the handle at position pos (0-based): overwrites
\* in place, and extends the file (zero-filling a gap) when it runs past the end.
WriteAt(content, pos, bytes) ==
    LET newlen == Max(Len(content), pos + Len(bytes))
    IN  [ i \in 1..newlen |->
            IF i > pos /\ i <= pos + Len(bytes) THEN bytes[i - pos]
            ELSE IF i <= Len(content) THEN content[i]
            ELSE 0 ]

\* What a read from position pos to end-of-file delivers.
ReadFrom(content, pos) ==
    IF pos >= Len(content) THEN << >> ELSE SubSeq(content, pos + 1, Len(content))

----------------------------------------------------------------------------
(* SHA-1 *)

\* Sha1::new()
Sha1New == 1

RECURSIVE Sha1Update(_, _)
\* hasher.update(slice): absorbs the slice byte by byte.
Sha1Update(h, slice) ==
    IF slice = << >> THEN h
    ELSE Sha1Update(h * 4 + Head(slice), Tail(slice))

RECURSIVE HashStream(_, _)
\* The fill_buf/consume loop: one buffer-full at a time until the stream is empty.
HashStream(h, data) ==
    IF data = << >> THEN h
    ELSE LET len == Min(BufCapacity, Len(data))
         IN  HashStream(Sha1Update(h, SubSeq(data, 1, len)), SubSeq(data, len + 1, Len(data)))

RECURSIVE DigestFromStr(_, _)
\* Digest::from_str(hex): the value of the hex string; acc is the value so far.
DigestFromStr(hex, acc) ==
    IF hex = << >> THEN acc
    ELSE DigestFromStr(Tail(hex), acc * 16 + Head(hex))

----------------------------------------------------------------------------
(* get_exe_state *)

\* The shape of every value get_exe_state can produce: Ok(ExeState), Err(e),
\* or a panic.  version is an index into VERSIONS (0: none).
ExeResult(tag, error, version, patched, hash) ==
    [ tag |-> tag, error |-> error, version |-> version, patched |-> patched, hash |-> hash ]

\* ExeState { version, patched }, and the value of `state` before there is one.
ExeState(version, patched) == [ known |-> TRUE, version |-> version, patched |-> patched ]
NoExeState == [ known |-> FALSE, version |-> 0, patched |-> FALSE ]

RECURSIVE CheckVersions(_, _)
\* for version in VERSIONS.iter(): the first entry one of whose hashes is file_hash.
CheckVersions(file_hash, i) ==
    IF i > Len(VERSIONS)
    THEN ExeResult("Err", "UnknownVersion", 0, FALSE, file_hash)
    ELSE IF file_hash = DigestFromStr(VERSIONS[i].unpatched_hash, 0)
    THEN ExeResult("Ok", "", i, FALSE, file_hash)
    ELSE IF file_hash = DigestFromStr(VERSIONS[i].patched_hash, 0)
    THEN ExeResult("Ok", "", i, TRUE, file_hash)
    ELSE CheckVersions(file_hash, i + 1)

\* get_exe_state(file) with the handle at position pos.  io is what the
\* operating system does: "ok", "seek" (the seek fails), "read" (a read fails).
\* A failed seek is returned with `?`; a failed read hits expect("I/O Error").
GetExeStateNoSeek(content, pos, io) ==
    IF io = "seek" THEN ExeResult("Err", "Io", 0, FALSE, 0)
    ELSE IF io = "read" THEN ExeResult("Panic", "I/O Error", 0, FALSE, 0)
    ELSE CheckVersions(HashStream(Sha1New, ReadFrom(content, pos)), 1)

GetExeStateAcceptAll(content, pos, io) ==
    IF io = "seek" THEN ExeResult("Err", "Io", 0, FALSE, 0)
    ELSE IF io = "read" THEN ExeResult("Panic", "I/O Error", 0, FALSE, 0)
    ELSE LET r == CheckVersions(HashStream(Sha1New, ReadFrom(content, 0)), 1)
         IN  IF r.tag = "Ok" THEN r ELSE ExeResult("Ok", "", 1, FALSE, r.hash)

GetExeState(content, pos, io) ==
    IF io = "seek" THEN ExeResult("Err", "Io", 0, FALSE, 0)
    ELSE IF io = "read" THEN ExeResult("Panic", "I/O Error", 0, FALSE, 0)
    ELSE CheckVersions(HashStream(Sha1New, ReadFrom(content, 0)), 1)

\* Where the handle is left: at end-of-file after hashing, untouched by a failed seek.
CursorAfterGetExeState(content, pos, io) ==
    IF io = "seek" THEN pos ELSE Len(content)

----------------------------------------------------------------------------
(* The install-path resolver *)

\* A manifest file appmanifest_<appid>.acf: absent, or lines of "key" "value".
NoManifest == [ exists |-> FALSE, lines |-> << >> ]
Manifests ==
    { NoManifest,
      [ exists |-> TRUE, lines |-> << << "appid", "49520" >>, << "installdir", "" >> >> ],
      [ exists |-> TRUE, lines |-> << << "appid", "49520" >>,
                                      << "installdir", "Borderlands2" >> >> ] }

\* An entry of the LibraryFolders table, in iteration order: a numbered
\* library whose path canonicalizes ("lib", with the manifest found under it),
\* or anything the filter_map drops ("skip").
Entries ==
    { [ kind |-> "skip", manifest |-> NoManifest ] } \cup
    { [ kind |-> "lib", manifest |-> m ] : m \in Manifests }

\* The installations the program may run in.  home: "unset" (no HOME),
\* "nosteam" (~/.steam/steam does not canonicalize), "ok".
Envs ==
    { [ home |-> h, index |-> [ status |-> "ioerr", entries |-> << >> ],
        home_manifest |-> NoManifest ] : h \in { "unset", "nosteam" } } \cup
    { [ home |-> "ok", index |-> [ status |-> s, entries |-> << >> ],
        home_manifest |-> NoManifest ] : s \in { "ioerr", "bad" } } \cup
    { [ home |-> "ok", index |-> [ status |-> "ok", entries |-> es ],
        home_manifest |-> m ] : es \in SeqsUpTo(Entries, MaxRoots), m \in Manifests }

\* Result<PathBuf, Box<dyn Error>>.  A path is the library root it lies under
\* (0: ~/.steam/steam, i: the i-th entry of the table) and the segments below it.
PathResult(tag, error, root, rel) == [ tag |-> tag, error |-> error, root |-> root, rel |-> rel ]
NoPath == PathResult("None", "", 0, << >>)

RECURSIVE FirstInstallDir(_)
\* re.captures(&manifest): the first line that is "installdir" "<one or more chars>".
FirstInstallDir(lines) ==
    IF lines = << >> THEN ""
    ELSE IF Head(lines)[1] = "installdir" /\ Head(lines)[2] # ""
    THEN Head(lines)[2]
    ELSE FirstInstallDir(Tail(lines))

\* get_install_dir_from_manifest(manifest_path)
GetInstallDirFromManifest(manifest) ==
    IF ~manifest.exists THEN PathResult("Err", "Io", 0, << >>)
    ELSE LET dir == FirstInstallDir(manifest.lines)
         IN  IF dir = "" THEN PathResult("Err", "BadVDF", 0, << >>)
             ELSE PathResult("Ok", "", 0, << "common", dir >>)

RECURSIVE LibraryRoots(_, _)
\* load_libraries_vdf's filter_map: the roots of the "lib" entries, in order.
LibraryRoots(entries, i) ==
    IF i > Len(entries) THEN << >>
    ELSE IF entries[i].kind = "lib" THEN << i >> \o LibraryRoots(entries, i + 1)
    ELSE LibraryRoots(entries, i + 1)

\* The manifest under a library root's steamapps directory.
ManifestAt(e, root) ==
    IF root = 0 THEN e.home_manifest ELSE e.index.entries[root].manifest

\* The closure given to find_map: Some(Ok(path)) or Some(Err(e)), never None.
TryLibrary(e, library_path) ==
    LET install_dir == GetInstallDirFromManifest(ManifestAt(e, library_path))
    IN  IF install_dir.tag = "Ok"
        THEN [ some |-> TRUE,
               val |-> PathResult("Ok", "", library_path, << "steamapps" >> \o install_dir.rel) ]
        ELSE [ some |-> TRUE, val |-> install_dir ]

RECURSIVE FindMap(_, _)
\* Iterator::find_map: the first Some the closure returns.
FindMap(e, library_paths) ==
    IF library_paths = << >> THEN [ some |-> FALSE, val |-> NoPath ]
    ELSE LET r == TryLibrary(e, Head(library_paths))
         IN  IF r.some THEN r ELSE FindMap(e, Tail(library_paths))

\* The candidate roots find_install_path searches, in order.
LibraryPaths(e) == LibraryRoots(e.index.entries, 1) \o << 0 >>

\* find_install_path(appid)
FindInstallPath(e) ==
    IF e.home = "unset" THEN PathResult("Err", "VarError", 0, << >>)
    ELSE IF e.home = "nosteam" THEN PathResult("Err", "Io", 0, << >>)
    ELSE IF e.index.status = "ioerr" THEN PathResult("Err", "Io", 0, << >>)
    ELSE IF e.index.status = "bad" THEN PathResult("Err", "BadVDF", 0, << >>)
    ELSE LET found == FindMap(e, LibraryPaths(e))
         IN  IF found.some THEN found.val
             ELSE PathResult("Err", "CantFindManifest", 0, << >>)

----------------------------------------------------------------------------
(* The patch engine *)

\* main's choice of direction from the classification.
ChooseAction(st) == IF ~st.patched THEN "Apply" ELSE "Undo"

\* The bytes modify_file writes for one change.
ChangeBytesAlwaysPatch(action, change) == change.patch

ChangeBytes(action, change) ==
    IF action = "Apply" THEN change.patch ELSE change.original

\* One iteration of modify_file's loop with the handle at pos: seek to the
\* change's offset, then write_all.  io is what the operating system does: "ok",
\* "seek" (the seek fails) or "write" (the write fails); either failure is
\* returned at once with `?`.
StepResult(tag, content, pos) == [ tag |-> tag, content |-> content, pos |-> pos ]

ModifyFileStepSwallow(content, pos, change, action, io) ==
    IF io = "seek" THEN StepResult("Ok", content, pos)
    ELSE IF io = "write" THEN StepResult("Ok", content, change.offset)
    ELSE StepResult("Ok",
                    WriteAt(content, change.offset, ChangeBytes(action, change)),
                    change.offset + Len(ChangeBytes(action, change)))

ModifyFileStep(content, pos, change, action, io) ==
    IF io = "seek" THEN StepResult("Err", content, pos)
    ELSE IF io = "write" THEN StepResult("Err", content, change.offset)
    ELSE StepResult("Ok",
                    WriteAt(content, change.offset, ChangeBytes(action, change)),
                    change.offset + Len(ChangeBytes(action, change)))

RECURSIVE ModifyFile(_, _, _)
\* modify_file(action, file) when no seek and no write fails: the content after
\* the loop has run over `changes`.
ModifyFile(content, changes, action) ==
    IF changes = << >> THEN content
    ELSE ModifyFile(ModifyFileStep(content, 0, Head(changes), action, "ok").content,
                    Tail(changes), action)

\* OpenOptions::new().read(true).write(true).create(false).open(&exe_path):
\* fails when the file does not exist, and leaves an existing file as it is.
OpenResult(tag, content) == [ tag |-> tag, content |-> content ]

OpenFileTruncate(exists, content) ==
    IF exists THEN OpenResult("Ok", << >>) ELSE OpenResult("Err", content)

OpenFile(exists, content) ==
    IF exists THEN OpenResult("Ok", content) ELSE OpenResult("Err", content)

----------------------------------------------------------------------------
(* main *)

Line(text, arg) == [ text |-> text, arg |-> arg ]
NoResult == [ tag |-> "none", error |-> "" ]
NoFail == [ site |-> "none", op |-> "none", index |-> 0 ]
NoPrev == [ ran |-> FALSE, ok |-> FALSE, state |-> NoExeState, opened |-> << >> ]

\* The executables the environment may hold when the program starts.
InitFiles == SeqsUpTo(Bytes, MaxLen)

Init ==
    /\ env \in Envs
    /\ exe_exists \in BOOLEAN
    /\ file \in InitFiles
    /\ exe_exists \/ file = << >>
    /\ pc = "resolve"
    /\ run = 1
    /\ cursor = 0
    /\ install_path = NoPath
    /\ state = NoExeState
    /\ k = 1
    /\ result = NoResult
    /\ report = << >>
    /\ opened = << >>
    /\ verified = NoExeState
    /\ iofail = NoFail
    /\ prev = NoPrev
    /\ tampered = FALSE

\* main returns Err(e), by `?` or otherwise: the runtime prints "Error: {e:?}".
MainReturnsErr(error) ==
    /\ result' = [ tag |-> "Err", error |-> error ]
    /\ report' = Append(report, Line("Error:", error))
    /\ pc' = "done"

\* A panic unwinds main: the runtime prints the panic message.
MainPanics(message) ==
    /\ result' = [ tag |-> "Panic", error |-> message ]
    /\ report' = Append(report, Line("thread 'main' panicked:", message))
    /\ pc' = "done"

\* main's last statement: what it prints for the value of `result`.
MainTail(block) ==
    IF block.tag = "Err"
    THEN Line("Error while modifying executable: ... You should restore from your backup.",
              block.error)
    ELSE Line("OK!", "")

\* get_exe_state(&mut file)?  in main: whether main goes on past the call.
ClassifyProceeds(r) == r.tag = "Ok"

VerifyPassesAlways(r) == r.tag # "Panic"

VerifyPasses(r) == r.tag = "Ok"

\* let install_path = find_install_path(49520)?;
Resolve ==
    /\ pc = "resolve"
    /\ LET r == FindInstallPath(env)
       IN  /\ install_path' = r
           /\ IF r.tag = "Ok"
              THEN /\ pc' = "open"
                   /\ UNCHANGED << result, report >>
              ELSE MainReturnsErr(r.error)
    /\ UNCHANGED << env, exe_exists, file, run, cursor, state, k, opened, verified,
                    iofail, prev, tampered >>

\* let mut file = OpenOptions::new()...open(&exe_path)?;
Open ==
    /\ pc = "open"
    /\ LET o == OpenFile(exe_exists, file)
       IN  IF o.tag = "Ok"
           THEN /\ file' = o.content
                /\ opened' = file
                /\ cursor' = 0
                /\ pc' = "classify"
                /\ UNCHANGED << result, report >>
           ELSE /\ MainReturnsErr("Io")
                /\ UNCHANGED << file, opened, cursor >>
    /\ UNCHANGED << env, exe_exists, run, install_path, state, k, verified, iofail,
                    prev, tampered >>

\* let state = get_exe_state(&mut file)?; and the choice of the action, which
\* prints "Patching ..." or "Unpatching ...".
Classify ==
    /\ pc = "classify"
    /\ \E io \in { "ok", "seek", "read" } :
        LET r == GetExeState(file, cursor, io)
        IN  /\ cursor' = CursorAfterGetExeState(file, cursor, io)
            /\ iofail' = IF io = "ok" THEN iofail
                         ELSE [ site |-> "classify", op |-> io, index |-> 0 ]
            /\ IF ClassifyProceeds(r)
               THEN /\ state' = ExeState(r.version, r.patched)
                    /\ k' = 1
                    /\ report' = Append(report,
                                        Line(IF ChooseAction(r) = "Apply"
                                             THEN "Patching" ELSE "Unpatching", ""))
                    /\ pc' = "modify"
                    /\ UNCHANGED result
               ELSE /\ IF r.tag = "Panic" THEN MainPanics(r.error) ELSE MainReturnsErr(r.error)
                    /\ UNCHANGED << state, k >>
    /\ UNCHANGED << env, exe_exists, file, run, install_path, opened, verified, prev,
                    tampered >>

\* state.version.modify_file(action, &mut file)?; one change per step.
ModifyStep ==
    /\ pc = "modify"
    /\ \E io \in { "ok", "seek", "write" } :
        LET changes == VERSIONS[state.version].changes
            s == ModifyFileStep(file, cursor, changes[k], ChooseAction(state), io)
        IN  /\ file' = s.content
            /\ cursor' = s.pos
            /\ iofail' = IF io = "ok" THEN iofail
                         ELSE [ site |-> "modify", op |-> io, index |-> k ]
            /\ IF s.tag = "Ok"
               THEN /\ k' = k + 1
                    /\ pc' = IF k = Len(changes) THEN "verify" ELSE "modify"
                    /\ UNCHANGED << result, report >>
               ELSE /\ MainReturnsErr("Io")
                    /\ UNCHANGED k
    /\ UNCHANGED << env, exe_exists, run, install_path, state, opened, verified, prev,
                    tampered >>

\* get_exe_state(&mut file)?; Ok(()) and then main's last statement.
Verify ==
    /\ pc = "verify"
    /\ \E io \in { "ok", "seek", "read" } :
        LET r == GetExeState(file, cursor, io)
        IN  /\ cursor' = CursorAfterGetExeState(file, cursor, io)
            /\ iofail' = IF io = "ok" THEN iofail
                         ELSE [ site |-> "verify", op |-> io, index |-> 0 ]
            /\ IF VerifyPasses(r)
               THEN /\ verified' = IF r.tag = "Ok" THEN ExeState(r.version, r.patched)
                                    ELSE NoExeState
                    /\ result' = [ tag |-> "Ok", error |-> "" ]
                    /\ report' = Append(report, MainTail([ tag |-> "Ok", error |-> "" ]))
                    /\ pc' = "done"
               ELSE /\ IF r.tag = "Panic" THEN MainPanics(r.error) ELSE MainReturnsErr(r.error)
                    /\ UNCHANGED verified
    /\ UNCHANGED << env, exe_exists, file, run, install_path, state, k, opened, prev,
                    tampered >>

\* The user runs the program again.
NextRun ==
    /\ pc = "done"
    /\ run < MaxRuns
    /\ run' = run + 1
    /\ prev' = [ ran |-> TRUE, ok |-> result.tag = "Ok", state |-> state, opened |-> opened ]
    /\ pc' = "resolve"
    /\ cursor' = 0
    /\ install_path' = NoPath
    /\ state' = NoExeState
    /\ k' = 1
    /\ result' = NoResult
    /\ report' = << >>
    /\ opened' = << >>
    /\ verified' = NoExeState
    /\ iofail' = NoFail
    /\ tampered' = FALSE
    /\ UNCHANGED << env, exe_exists, file >>

\* Another process rewrites the executable between the last write and the
\* verification: nothing locks the file.
Tamper ==
    /\ pc = "verify"
    /\ ~tampered
    /\ file' \in InitFiles \ { file }
    /\ tampered' = TRUE
    /\ UNCHANGED << env, exe_exists, pc, run, cursor, install_path, state, k, result,
                    report, opened, verified, iofail, prev >>

Next ==
    \/ Resolve
    \/ Open
    \/ Classify
    \/ ModifyStep
    \/ Verify
    \/ NextRun

NextTamper ==
    \/ Next
    \/ Tamper

\* The program alone with the file.
Spec == Init /\ [][Next]_vars

\* The program with another process writing the file.
SpecTamper == Init /\ [][NextTamper]_vars

----------------------------------------------------------------------------
(* Vocabulary of the properties *)

\* The SHA-1 of a whole content.
Digest(content) == HashStream(Sha1New, content)

IsUnpatched(content, v) == Digest(content) = DigestFromStr(VERSIONS[v].unpatched_hash, 0)
IsPatched(content, v) == Digest(content) = DigestFromStr(VERSIONS[v].patched_hash, 0)

\* The content's digest is one of the registry's.
Known(content) == \E v \in DOMAIN VERSIONS : IsUnpatched(content, v) \/ IsPatched(content, v)

\* This run opened the executable.
FileOpen ==
    \/ pc \in { "classify", "modify", "verify" }
    \/ pc = "done" /\ install_path.tag = "Ok" /\ exe_exists

\* The 0-based positions the changes of version v cover (none for v = 0).
ChangedOffsets(v) ==
    IF v = 0 THEN { }
    ELSE UNION { { VERSIONS[v].changes[j].offset + d :
                   d \in 0..(Len(VERSIONS[v].changes[j].patch) - 1) } :
                 j \in DOMAIN VERSIONS[v].changes }

HasLine(text) == \E i \in DOMAIN report : report[i].text = text

RestoreWarning == "Error while modifying executable: ... You should restore from your backup."

\* The changes of the version this run matched.
Changes == VERSIONS[state.version].changes

\* The candidate roots whose manifest yields an installdir value, in order.
GoodRoots(e) ==
    SelectSeq(LibraryPaths(e), LAMBDA r : GetInstallDirFromManifest(ManifestAt(e, r)).tag = "Ok")

----------------------------------------------------------------------------
(* C1 *)

\* C1 (as stated): for a file whose digest is neither hash of any registry
\* entry, get_exe_state yields UnknownVersion, modify_file is never called and
\* the content is unchanged.
C1_UnknownRejection ==
    (FileOpen /\ ~Known(opened)) =>
        /\ pc \notin { "modify", "verify" }
        /\ file = opened
        /\ pc = "done" => (result.tag = "Err" /\ result.error = "UnknownVersion")

\* C1 (amended): for such a file get_exe_state never yields Ok, so modify_file
\* is never called and the content is unchanged; it yields UnknownVersion
\* whenever its seek and its reads succeed.
C1_UnknownRejectionAmended ==
    (FileOpen /\ ~Known(opened)) =>
        /\ pc \notin { "modify", "verify" }
        /\ file = opened
        /\ state = NoExeState
        /\ pc = "done" =>
            /\ result.tag # "Ok"
            /\ iofail = NoFail => (result.tag = "Err" /\ result.error = "UnknownVersion")

C1_Witness ==
    /\ pc = "done"
    /\ FileOpen
    /\ ~Known(opened)
    /\ Len(opened) = Len(VERSIONS[1].changes) + 2
    /\ result.error = "UnknownVersion"

----------------------------------------------------------------------------
(* C2 *)

\* C2: a run without I/O failure that classifies the file as a known state of
\* version v ends with the file classified as the opposite state of v, and of
\* two successive successful runs the second starts in the opposite state of
\* the first.
C2_IdempotentToggle ==
    /\ (pc = "done" /\ state.known /\ iofail = NoFail) =>
            /\ result.tag = "Ok"
            /\ verified.known
            /\ verified.version = state.version
            /\ verified.patched = ~state.patched
            /\ IF state.patched THEN IsUnpatched(file, state.version)
                                ELSE IsPatched(file, state.version)
    /\ (prev.ran /\ prev.ok /\ FileOpen /\ pc # "classify" /\ iofail.site # "classify") =>
            /\ state.known
            /\ state.version = prev.state.version
            /\ state.patched = ~prev.state.patched

C2_Witness ==
    /\ pc = "done"
    /\ prev.ok
    /\ ~prev.state.patched
    /\ state.patched
    /\ result.tag = "Ok"
    /\ verified = ExeState(1, FALSE)

----------------------------------------------------------------------------
(* C3 *)

\* C3: for a content whose digest is v.unpatched_hash, modify_file(Apply) then
\* modify_file(Undo) gives a content with that digest again; and after two
\* successive successful runs the file is what it was before the first.
C3_RoundTrip ==
    /\ \A v \in DOMAIN VERSIONS :
          IsUnpatched(file, v) =>
              /\ ~IsUnpatched(ModifyFile(file, VERSIONS[v].changes, "Apply"), v)
              /\ IsUnpatched(ModifyFile(ModifyFile(file, VERSIONS[v].changes, "Apply"),
                                        VERSIONS[v].changes, "Undo"), v)
    /\ (pc = "done" /\ result.tag = "Ok" /\ prev.ran /\ prev.ok) =>
          /\ file = prev.opened
          /\ file # opened
          /\ Digest(file) = Digest(prev.opened)

C3_Witness ==
    /\ pc = "done"
    /\ result.tag = "Ok"
    /\ prev.ok
    /\ IsUnpatched(prev.opened, 1)
    /\ IsPatched(opened, 1)
    /\ IsUnpatched(file, 1)

----------------------------------------------------------------------------
(* C4 *)

\* C4: when a seek or write of modify_file fails, the run prints the "Error
\* while modifying executable ... You should restore from your backup." report
\* before it ends.
C4_WriteFailureWarned ==
    (pc = "done" /\ iofail.site = "modify") => HasLine(RestoreWarning)

----------------------------------------------------------------------------
(* C5 *)

\* C5: when every change was written without I/O error and the file then does
\* not classify as the expected post-state, the run ends in an outcome that is
\* neither success, nor the I/O error, nor the unknown-version error.
C5_VerificationMismatchDistinct ==
    ( /\ pc = "done"
      /\ state.known
      /\ k = Len(Changes) + 1
      /\ iofail = NoFail
      /\ ~(IF state.patched THEN IsUnpatched(file, state.version)
                            ELSE IsPatched(file, state.version)) ) =>
        /\ result.tag # "Ok"
        /\ ~HasLine("OK!")
        /\ result.error \notin { "Io", "UnknownVersion" }

----------------------------------------------------------------------------
(* C6 *)

\* C6: while the file is open its length is the length it had when it was
\* opened, and every byte outside the ranges of the matched version's changes
\* has the value it had then.
C6_NeverResized ==
    FileOpen =>
        /\ Len(file) = Len(opened)
        /\ \A i \in 1..Len(opened) :
              (i - 1) \notin ChangedOffsets(state.version) => file[i] = opened[i]

C6_Witness ==
    /\ pc = "done"
    /\ iofail.site = "modify"
    /\ iofail.index = 2
    /\ file # opened
    /\ Len(file) > Len(Changes)

----------------------------------------------------------------------------
(* C7 *)

\* C7: find_install_path returns the path under the first candidate root whose
\* manifest yields an installdir value, whatever the roots before it hold, and
\* reports CantFindManifest exactly when no candidate root yields one.
C7_SkipsFailingRoots ==
    (pc # "resolve" /\ env.home = "ok" /\ env.index.status = "ok") =>
        IF GoodRoots(env) # << >>
        THEN /\ install_path.tag = "Ok"
             /\ install_path.root = Head(GoodRoots(env))
        ELSE /\ install_path.tag = "Err"
             /\ install_path.error = "CantFindManifest"

----------------------------------------------------------------------------
(* C8 *)

\* C8: modify_file writes the changes in registry order; when the seek or the
\* write of a change after the first fails, main ends with that error, the
\* changes before it are in the file, that change and those after it are not,
\* and the content matches no digest of the registry.
C8_PartialWrite ==
    /\ (pc = "modify") =>
          file = ModifyFile(opened, SubSeq(Changes, 1, k - 1), ChooseAction(state))
    /\ (pc = "done" /\ iofail.site = "modify" /\ iofail.index > 1) =>
          /\ result.tag = "Err" /\ result.error = "Io"
          /\ k = iofail.index
          /\ file = ModifyFile(opened, SubSeq(Changes, 1, iofail.index - 1),
                               ChooseAction(state))
          /\ \A j \in iofail.index..Len(Changes) :
                file[Changes[j].offset + 1] = opened[Changes[j].offset + 1]
          /\ \A j \in 1..(iofail.index - 1) :
                file[Changes[j].offset + 1] # opened[Changes[j].offset + 1]
          /\ ~Known(file)

C8_Witness ==
    /\ pc = "done"
    /\ iofail = [ site |-> "modify", op |-> "write", index |-> 3 ]
    /\ state.patched
    /\ ~Known(file)

----------------------------------------------------------------------------
(* C9 *)

\* C9: a read that fails inside get_exe_state is returned to main as an I/O
\* error value, as a failed seek is.
C9_ReadFailurePropagated ==
    (pc = "done" /\ iofail.site \in { "classify", "verify" }) =>
        (result.tag = "Err" /\ result.error = "Io")

----------------------------------------------------------------------------
(* C10 *)

\* C10: a run reports success only if every seek and write of modify_file
\* succeeded and the get_exe_state after it, hashing the whole file from byte
\* 0, matched a digest of the registry; the file is then in a known state.
C10_SuccessVerified ==
    (result.tag = "Ok" \/ HasLine("OK!")) =>
        /\ pc = "done"
        /\ result.tag = "Ok"
        /\ report[Len(report)] = Line("OK!", "")
        /\ iofail = NoFail
        /\ state.known
        /\ k = Len(Changes) + 1
        /\ file = ModifyFile(opened, Changes, ChooseAction(state))
        /\ cursor = Len(file)
        /\ verified.known
        /\ Known(file)

C10_Witness ==
    /\ result.tag = "Ok"
    /\ HasLine("OK!")
    /\ ~state.patched
    /\ IsPatched(file, 1)

=============================================================================
